---- MODULE Spec2Model ----
(***************************************************************************)
(* PlayStats (src/playstatsappcsv.py): one run of main() reads the previous *)
(* ranks from the CSV store (steam_data.csv merged with                     *)
(* steam_data_backup.csv), fetches the ranking, collects one row per        *)
(* qualifying game, appends the batch to steam_data.csv and summarises the  *)
(* latest snapshot.                                                         *)
(*                                                                         *)
(* A CSV file is a sequence of lines (<<>>: the file does not exist); line  *)
(* 1 is the header.  Timestamps are integers ordered like the instants they *)
(* stand for; BadStamp is a text pd.to_datetime cannot parse.  The wall     *)
(* clock read by main() is later than every timestamp already stored.       *)
(***************************************************************************)
EXTENDS Integers, Sequences, FiniteSets, TLC

VARIABLES primary, backup, clock, pc, snapshot_time, prev_ranks, top_games,
          details, df, saved, summary, merged

vars == <<primary, backup, clock, pc, snapshot_time, prev_ranks, top_games,
          details, df, saved, summary, merged>>

\* ---------------------------------------------------------------- bounds
MaxGames == 2
MaxRuns == 2
MaxBackup == 1
NApps == 2
MaxFile == 2

\* ------------------------------------------------------------ value model
\* Python None / pandas NaN (a missing value).
None == -1000
\* A ranking entry without a usable "appid" (`not app_id`).
NoAppId == 0
\* An empty field of a CSV line.
EmptyField == -2000
\* A snapshot_time text that pd.to_datetime(errors="coerce") turns into NaT.
BadStamp == 0
\* The one timestamp of records that predate the first modelled run.
LegacyStamp == 1

Apps == 1..NApps
\* peak_in_game: 0 is a peak the dashboard drops (not > 0), 1 a positive peak.
Peaks == {0, 1}
\* One appdetails lookup: a game that is not banned; no entry or success false;
\* the request or its decoding raises; a type other than "game"; a banned name.
Outcomes == {"ok", "unsuccessful", "raises", "not_game", "banned"}

HeaderLine == [kind |-> "header"]

\* ------------------------------------------------------------- sequences
\* Series.max(): the missing value when there is nothing to take it of.
SeqMax(S) == IF S = {} THEN None
             ELSE LET x == CHOOSE y \in S : \A z \in S : z <= y IN x

Range(s) == {s[i] : i \in 1..Len(s)}

\* The subsequence of s at the positions of K, from position i on.
RECURSIVE SubSeqAt(_, _, _)
SubSeqAt(s, K, i) ==
    IF i > Len(s) THEN <<>>
    ELSE (IF i \in K THEN <<s[i]>> ELSE <<>>) \o SubSeqAt(s, K, i + 1)

IsPrefix(s, t) == Len(s) <= Len(t) /\ SubSeq(t, 1, Len(s)) = s

\* ------------------------------------------------------------------- CSV
\* As ToCsvCell, with a missing value written as the number 0.
ToCsvCell_zero(v) == IF v = None THEN 0 ELSE v

\* DataFrame.to_csv: a missing value is written as an empty field.
ToCsvCell(v) == IF v = None THEN EmptyField ELSE v

\* pd.read_csv: an empty field is read as NaN.
FromCsvCell(c) == IF c = EmptyField THEN None ELSE c

ToCsvLine(r) ==
    [kind |-> "row",
     app_id |-> r.app_id,
     rank_position |-> ToCsvCell(r.rank_position),
     previous_rank |-> ToCsvCell(r.previous_rank),
     peak_in_game |-> ToCsvCell(r.peak_in_game),
     snapshot_time |-> r.snapshot_time,
     rank_status |-> r.rank_status,
     delta_rank |-> ToCsvCell(r.delta_rank)]

FromCsvLine(l) ==
    [app_id |-> l.app_id,
     rank_position |-> FromCsvCell(l.rank_position),
     previous_rank |-> FromCsvCell(l.previous_rank),
     peak_in_game |-> FromCsvCell(l.peak_in_game),
     snapshot_time |-> l.snapshot_time,
     rank_status |-> l.rank_status,
     delta_rank |-> FromCsvCell(l.delta_rank)]

\* pd.read_csv(path): line 1 names the columns, the others are the records.
ReadCsv(file) == [i \in 1..(Len(file) - 1) |-> FromCsvLine(file[i + 1])]

Exists(file) == file # <<>>

\* df.drop_duplicates(subset=["app_id", "snapshot_time"], keep="last")
DropDuplicatesLast(s) ==
    LET Keep == {i \in 1..Len(s) :
                    ~\E j \in (i + 1)..Len(s) :
                        /\ s[j].app_id = s[i].app_id
                        /\ s[j].snapshot_time = s[i].snapshot_time}
    IN SubSeqAt(s, Keep, 1)

\* df.drop_duplicates(subset=["app_id", "snapshot_time"]): keep="first"
DropDuplicatesFirst(s) ==
    LET Keep == {i \in 1..Len(s) :
                    ~\E j \in 1..(i - 1) :
                        /\ s[j].app_id = s[i].app_id
                        /\ s[j].snapshot_time = s[i].snapshot_time}
    IN SubSeqAt(s, Keep, 1)

\* As load_merged_dataframe, with the first record of a key kept.
load_merged_dataframe_first(main_path, backup_path) ==
    LET dfs == (IF Exists(main_path) THEN ReadCsv(main_path) ELSE <<>>)
               \o (IF Exists(backup_path) THEN ReadCsv(backup_path) ELSE <<>>)
        Keep == {i \in 1..Len(dfs) :
                    ~\E j \in 1..(i - 1) :
                        /\ dfs[j].app_id = dfs[i].app_id
                        /\ dfs[j].snapshot_time = dfs[i].snapshot_time}
    IN SubSeqAt(dfs, Keep, 1)

load_merged_dataframe(main_path, backup_path) ==
    LET dfs == (IF Exists(main_path) THEN ReadCsv(main_path) ELSE <<>>)
               \o (IF Exists(backup_path) THEN ReadCsv(backup_path) ELSE <<>>)
    IN DropDuplicatesLast(dfs)

\* pd.to_datetime(..., errors="coerce") followed by dropna(subset=["snapshot_time"])
DropNaT(s) == SelectSeq(s, LAMBDA r : r.snapshot_time # BadStamp)

\* As load_latest_ranks, without the restriction to the latest snapshot: the
\* ranks of every stored record, the last one of an app_id winning.
load_latest_ranks_all(csv_file, backup_file) ==
    IF ~Exists(csv_file) /\ ~Exists(backup_file) THEN <<>>
    ELSE LET d == DropNaT(load_merged_dataframe(csv_file, backup_file))
             Last(a) == CHOOSE i \in 1..Len(d) :
                           /\ d[i].app_id = a
                           /\ \A j \in 1..Len(d) : d[j].app_id = a => j <= i
         IN [a \in {d[i].app_id : i \in 1..Len(d)} |-> d[Last(a)].rank_position]

load_latest_ranks(csv_file, backup_file) ==
    IF ~Exists(csv_file) /\ ~Exists(backup_file) THEN <<>>
    ELSE LET d == DropNaT(load_merged_dataframe(csv_file, backup_file))
             latest_time == SeqMax({d[i].snapshot_time : i \in 1..Len(d)})
             latest_df == SelectSeq(d, LAMBDA r : r.snapshot_time = latest_time)
             \* dict(zip(app_id, rank_position)): the last pair of a key wins
             Last(a) == CHOOSE i \in 1..Len(latest_df) :
                           /\ latest_df[i].app_id = a
                           /\ \A j \in 1..Len(latest_df) :
                                 latest_df[j].app_id = a => j <= i
         IN [a \in {latest_df[i].app_id : i \in 1..Len(latest_df)} |->
                latest_df[Last(a)].rank_position]

\* ------------------------------------------------------ collect_game_data
\* What the store's appdetails request gives for one entry.
Raises(d) == d = "raises"
Success(d) == d \notin {"unsuccessful", "raises"}
IsGame(d) == d # "not_game"
InBannedTitles(d) == d = "banned"

\* prev_ranks.get(app_id)
Get(prev, a) == IF a \in DOMAIN prev THEN prev[a] ELSE None

\* As CollectRows, but an exception in one entry ends the loop.
RECURSIVE CollectRows_break(_, _, _, _, _)
CollectRows_break(games, dets, time, prev, i) ==
    IF i > Len(games) THEN <<>>
    ELSE LET game == games[i]
             rest == CollectRows_break(games, dets, time, prev, i + 1)
         IN IF game.appid = NoAppId THEN rest
            ELSE IF Raises(dets[i]) THEN <<>>
            ELSE IF ~Success(dets[i]) THEN rest
            ELSE IF ~IsGame(dets[i]) \/ InBannedTitles(dets[i]) THEN rest
            ELSE <<[app_id |-> game.appid,
                    rank_position |-> game.rank,
                    previous_rank |-> Get(prev, game.appid),
                    peak_in_game |-> game.peak_in_game,
                    snapshot_time |-> time]>> \o rest

\* The loop of collect_game_data from entry i on: the rows it appends.
RECURSIVE CollectRows(_, _, _, _, _)
CollectRows(games, dets, time, prev, i) ==
    IF i > Len(games) THEN <<>>
    ELSE LET game == games[i]
             rest == CollectRows(games, dets, time, prev, i + 1)
         IN IF game.appid = NoAppId THEN rest
            ELSE IF Raises(dets[i]) THEN rest
            ELSE IF ~Success(dets[i]) THEN rest
            ELSE IF ~IsGame(dets[i]) \/ InBannedTitles(dets[i]) THEN rest
            ELSE <<[app_id |-> game.appid,
                    rank_position |-> game.rank,
                    previous_rank |-> Get(prev, game.appid),
                    peak_in_game |-> game.peak_in_game,
                    snapshot_time |-> time]>> \o rest

\* As compute_status, with the comparison the wrong way round.
compute_status_flipped(prev, cur) ==
    IF prev = None THEN "new"
    ELSE IF cur > prev THEN "up"
    ELSE IF cur < prev THEN "down"
    ELSE "same"

\* As compute_status, without the test for a missing previous rank: int(None)
\* raises, the except clause passes, and "same" is returned.
compute_status_nocheck(prev, cur) ==
    IF prev # None /\ cur < prev THEN "up"
    ELSE IF prev # None /\ cur > prev THEN "down"
    ELSE "same"

compute_status(prev, cur) ==
    IF prev = None THEN "new"
    ELSE IF cur < prev THEN "up"
    ELSE IF cur > prev THEN "down"
    ELSE "same"

\* to_numeric(previous_rank).fillna(rank_position) - to_numeric(rank_position)
delta_rank(prev, cur) == (IF prev = None THEN cur ELSE prev) - cur

collect_game_data(games, dets, time, prev) ==
    LET rows == CollectRows(games, dets, time, prev, 1)
    IN [i \in 1..Len(rows) |->
           [app_id |-> rows[i].app_id,
            rank_position |-> rows[i].rank_position,
            previous_rank |-> rows[i].previous_rank,
            peak_in_game |-> rows[i].peak_in_game,
            snapshot_time |-> rows[i].snapshot_time,
            rank_status |-> compute_status(rows[i].previous_rank, rows[i].rank_position),
            delta_rank |-> delta_rank(rows[i].previous_rank, rows[i].rank_position)]]

\* ---------------------------------------------------------- save_snapshot
\* The batch save_snapshot writes for d.
Batch(d) == DropDuplicatesFirst(d)

\* As ToCsv, always with mode "w" and a header.
ToCsv_overwrite(file, d) ==
    <<HeaderLine>> \o [i \in 1..Len(d) |-> ToCsvLine(d[i])]

\* df.to_csv(CSV_FILE, mode "a" if the file exists else "w", header only if not)
ToCsv(file, d) ==
    (IF Exists(file) THEN file ELSE <<HeaderLine>>)
    \o [i \in 1..Len(d) |-> ToCsvLine(d[i])]

\* ---------------------------------------------------- visualize_dashboard
NoSummary == [shown |-> FALSE, new_count |-> 0, biggest_gain |-> <<>>, biggest_loss |-> <<>>]

\* The rows of the dashboard's latest snapshot `snap`.
Snap(main_path, backup_path) ==
    LET d0 == DropNaT(load_merged_dataframe(main_path, backup_path))
        d == SelectSeq(d0, LAMBDA r : r.peak_in_game # None /\ r.peak_in_game > 0)
        latest_time == SeqMax({d[i].snapshot_time : i \in 1..Len(d)})
    IN SelectSeq(d, LAMBDA r : r.snapshot_time = latest_time)

\* snap.loc[snap["delta_rank"].idxmax()] (sign = 1) or idxmin() (sign = -1):
\* the first row of snap, which is sorted by peak_in_game descending (ties in
\* any order), whose delta is extreme; the rows this can be.
Extreme(snap, sign) ==
    LET S == {r \in Range(snap) : r.delta_rank # None}
        best == {r \in S : \A q \in S : sign * q.delta_rank <= sign * r.delta_rank}
    IN {r \in best : \A q \in best : q.peak_in_game <= r.peak_in_game}

\* ------------------------------------------------------------------ inputs
\* What GetMostPlayedGames can return, cut to MaxGames entries: entry i has rank i.
RankLists ==
    UNION {{[i \in 1..n |-> [appid |-> f[i][1], rank |-> i, peak_in_game |-> f[i][2]]] :
               f \in [1..n -> (({NoAppId} \cup Apps) \X Peaks)]} : n \in 0..MaxGames}

\* Records of runs before the first modelled one.
LegacyRows ==
    [app_id : Apps, rank_position : 1..MaxGames, previous_rank : {None},
     peak_in_game : Peaks, snapshot_time : {BadStamp, LegacyStamp},
     rank_status : {"new"}, delta_rank : {0}]

FilesOf(rows, maxlen) ==
    {<<>>} \cup
    UNION {{<<HeaderLine>> \o [i \in 1..n |-> ToCsvLine(f[i])] : f \in [1..n -> rows]} :
              n \in 0..maxlen}

BackupFiles == FilesOf(LegacyRows, MaxBackup)

NoLocals ==
    /\ prev_ranks' = <<>>
    /\ top_games' = <<>>
    /\ df' = <<>>
    /\ saved' = FALSE
    /\ UNCHANGED details

Init ==
    /\ primary = <<>>
    /\ backup \in BackupFiles
    /\ clock = LegacyStamp
    /\ pc = "idle"
    /\ snapshot_time = None
    /\ prev_ranks = <<>>
    /\ top_games = <<>>
    /\ details = <<>>
    /\ df = <<>>
    /\ saved = FALSE
    /\ summary = NoSummary
    /\ merged = <<>>

\* ------------------------------------------------------------------ main()
\* snapshot_time = datetime.now(timezone.utc).isoformat()
Start ==
    /\ pc = "idle"
    /\ clock < LegacyStamp + MaxRuns
    /\ clock' = clock + 1
    /\ snapshot_time' = clock + 1
    /\ summary' = NoSummary
    /\ pc' = "load"
    /\ UNCHANGED <<primary, backup, prev_ranks, top_games, details, df, saved, merged>>

\* prev_ranks = load_latest_ranks(CSV_FILE)
LoadLatestRanks ==
    /\ pc = "load"
    /\ prev_ranks' = load_latest_ranks(primary, backup)
    /\ pc' = "fetch"
    /\ UNCHANGED <<primary, backup, clock, snapshot_time, top_games, details, df,
                   saved, summary, merged>>

\* top_games = fetch_top_games(): [] when the request fails; main returns on [].
FetchTopGames ==
    /\ pc = "fetch"
    /\ \E games \in RankLists :
          IF games = <<>>
          THEN /\ pc' = "idle"
               /\ prev_ranks' = <<>>
               /\ top_games' = <<>>
               /\ df' = <<>>
               /\ saved' = FALSE
          ELSE /\ top_games' = games
               /\ pc' = "collect"
               /\ UNCHANGED <<prev_ranks, df, saved>>
    /\ UNCHANGED <<primary, backup, clock, snapshot_time, details, summary, merged>>

\* What the appdetails lookups of a ranking can give, entry by entry: any
\* outcome, or the ones of `fixed` where the store's answers are given.
Lookups(games, fixed) ==
    IF fixed # <<>> THEN {fixed} ELSE [1..Len(games) -> Outcomes]

\* df = collect_game_data(top_games, snapshot_time, prev_ranks)
CollectGameData ==
    /\ pc = "collect"
    /\ \E dets \in Lookups(top_games, details) :
          df' = collect_game_data(top_games, dets, snapshot_time, prev_ranks)
    /\ pc' = "save"
    /\ UNCHANGED <<primary, backup, clock, snapshot_time, prev_ranks, top_games,
                   details, saved, summary, merged>>

\* As SaveNothing, without the test for an empty df: to_csv runs and True is
\* returned.
SaveNothing_writes ==
    /\ pc = "save"
    /\ df = <<>>
    /\ primary' = ToCsv(primary, Batch(df))
    /\ saved' = TRUE
    /\ pc' = "viz"
    /\ UNCHANGED <<backup, clock, snapshot_time, prev_ranks, top_games, details, df,
                   summary, merged>>

\* save_snapshot(df) with an empty df: nothing written, returns False.
SaveNothing ==
    /\ pc = "save"
    /\ df = <<>>
    /\ pc' = "idle"
    /\ NoLocals
    /\ UNCHANGED <<primary, backup, clock, snapshot_time, summary, merged>>

\* save_snapshot(df): the batch is appended, returns True.
SaveSnapshot ==
    /\ pc = "save"
    /\ df # <<>>
    /\ primary' = ToCsv(primary, Batch(df))
    /\ saved' = TRUE
    /\ pc' = "viz"
    /\ UNCHANGED <<backup, clock, snapshot_time, prev_ranks, top_games, details, df,
                   summary, merged>>

\* As SaveFails, with main calling visualize_dashboard whatever save_snapshot
\* returned.
SaveFails_visualizes ==
    /\ pc = "save"
    /\ df # <<>>
    /\ pc' = "viz"
    /\ UNCHANGED <<primary, backup, clock, snapshot_time, prev_ranks, top_games,
                   details, df, saved, summary, merged>>

\* save_snapshot(df): to_csv cannot open the file, returns False.
SaveFails ==
    /\ pc = "save"
    /\ df # <<>>
    /\ pc' = "idle"
    /\ NoLocals
    /\ UNCHANGED <<primary, backup, clock, snapshot_time, summary, merged>>

\* visualize_dashboard(): the delta summary of the latest snapshot.
VisualizeDashboard ==
    /\ pc = "viz"
    /\ LET snap == Snap(primary, backup)
       IN IF snap = <<>>
          THEN summary' = summary
          ELSE \E g \in Extreme(snap, 1), l \in Extreme(snap, -1) :
                  summary' = [shown |-> TRUE,
                              new_count |-> Cardinality({i \in 1..Len(snap) :
                                                snap[i].rank_status = "new"}),
                              biggest_gain |-> <<g>>,
                              biggest_loss |-> <<l>>]
    /\ pc' = "idle"
    /\ NoLocals
    /\ UNCHANGED <<primary, backup, clock, snapshot_time, merged>>

Next ==
    \/ Start
    \/ LoadLatestRanks
    \/ FetchTopGames
    \/ CollectGameData
    \/ SaveNothing
    \/ SaveSnapshot
    \/ SaveFails
    \/ VisualizeDashboard

Spec == Init /\ [][Next]_vars

\* ------------------------------------------- load_merged_dataframe alone
MergeRows ==
    [app_id : Apps, rank_position : {1, 2}, previous_rank : {None},
     peak_in_game : {1}, snapshot_time : {LegacyStamp},
     rank_status : {"new"}, delta_rank : {0}]

InitMerge ==
    /\ primary \in FilesOf(MergeRows, MaxFile)
    /\ backup \in FilesOf(MergeRows, MaxFile)
    /\ clock = LegacyStamp
    /\ pc = "merge"
    /\ snapshot_time = None
    /\ prev_ranks = <<>>
    /\ top_games = <<>>
    /\ details = <<>>
    /\ df = <<>>
    /\ saved = FALSE
    /\ summary = NoSummary
    /\ merged = <<>>

LoadMerged ==
    /\ pc = "merge"
    /\ merged' = load_merged_dataframe(primary, backup)
    /\ pc' = "merged"
    /\ UNCHANGED <<primary, backup, clock, snapshot_time, prev_ranks, top_games,
                   details, df, saved, summary>>

NextMerge == LoadMerged

SpecMerge == InitMerge /\ [][NextMerge]_vars

\* -------------------------------------------------- collect_game_data alone
PrevMaps == UNION {[S -> 1..(MaxGames + 1)] : S \in SUBSET Apps}

InitCollect ==
    /\ primary = <<>>
    /\ backup = <<>>
    /\ clock = LegacyStamp + 1
    /\ pc = "collect"
    /\ snapshot_time = LegacyStamp + 1
    /\ prev_ranks \in PrevMaps
    /\ top_games \in RankLists \ {<<>>}
    /\ details \in [1..Len(top_games) -> Outcomes]
    /\ df = <<>>
    /\ saved = FALSE
    /\ summary = NoSummary
    /\ merged = <<>>

NextCollect == CollectGameData

SpecCollect == InitCollect /\ [][NextCollect]_vars

\* ------------------------------------------------------------------ claims

\* C1: every collected row whose app_id has a previous rank p in prev_ranks and
\* whose current rank is c has delta_rank = p - c and rank_status "up" iff
\* c < p, "down" iff c > p, "same" iff c = p.
C1_DeltaAndStatus ==
    pc = "save" =>
        \A i \in 1..Len(df) :
            df[i].app_id \in DOMAIN prev_ranks =>
                LET p == prev_ranks[df[i].app_id]
                    c == df[i].rank_position
                IN /\ df[i].delta_rank = p - c
                   /\ (df[i].rank_status = "up") <=> (c < p)
                   /\ (df[i].rank_status = "down") <=> (c > p)
                   /\ (df[i].rank_status = "same") <=> (c = p)

\* C1 witness: previous rank 3, current rank 1: "up" with delta 2.
C1_Witness ==
    /\ pc = "save"
    /\ \E i \in 1..Len(df) :
          /\ df[i].app_id \in DOMAIN prev_ranks
          /\ prev_ranks[df[i].app_id] = 3
          /\ df[i].rank_position = 1
          /\ df[i].rank_status = "up"
          /\ df[i].delta_rank = 2

\* C2: a collected row whose app_id has no entry in prev_ranks has status "new",
\* no previous_rank and delta 0; with prev_ranks empty that is every row.
C2_NewWithoutPrevious ==
    pc = "save" =>
        /\ \A i \in 1..Len(df) :
              df[i].app_id \notin DOMAIN prev_ranks =>
                  /\ df[i].rank_status = "new"
                  /\ df[i].previous_rank = None
                  /\ df[i].delta_rank = 0
        /\ DOMAIN prev_ranks = {} =>
              \A i \in 1..Len(df) : df[i].rank_status = "new"

\* C2 witness: no previous ranks at all, and two rows collected.
C2_Witness ==
    /\ pc = "save"
    /\ DOMAIN prev_ranks = {}
    /\ Len(df) = 2
    /\ df[1].rank_status = "new"
    /\ df[2].delta_rank = 0

\* The rows of the store that carry the current run's snapshot_time.
C3_Written == SelectSeq(ReadCsv(primary), LAMBDA r : r.snapshot_time = snapshot_time)

\* C3 (as claimed): the batch written for one snapshot holds at most one row
\* per app_id, and the row kept is the last one collected for that app_id.
C3_KeepsLastSeen ==
    pc = "viz" =>
        /\ \A i, j \in 1..Len(C3_Written) :
              C3_Written[i].app_id = C3_Written[j].app_id => i = j
        /\ \A i \in 1..Len(C3_Written) :
              \E k \in 1..Len(df) :
                  /\ df[k].app_id = C3_Written[i].app_id
                  /\ \A m \in 1..Len(df) : df[m].app_id = df[k].app_id => m <= k
                  /\ df[k].rank_position = C3_Written[i].rank_position
                  /\ df[k].peak_in_game = C3_Written[i].peak_in_game

\* The stored records in read order, primary file before backup file.
C4_Stored ==
    (IF Exists(primary) THEN ReadCsv(primary) ELSE <<>>)
    \o (IF Exists(backup) THEN ReadCsv(backup) ELSE <<>>)

\* The positions of those with a timestamp before the run's snapshot_time.
C4_Before ==
    {i \in 1..Len(C4_Stored) :
        /\ C4_Stored[i].snapshot_time # BadStamp
        /\ C4_Stored[i].snapshot_time < snapshot_time}

\* The positions of those with the greatest such timestamp.
C4_Previous ==
    {i \in C4_Before :
        \A j \in C4_Before : C4_Stored[j].snapshot_time <= C4_Stored[i].snapshot_time}

\* C4: the prev_ranks of a run map app_id to rank_position over the stored
\* records whose timestamp is the greatest stored timestamp before the run's
\* snapshot_time, and the previous_rank of every collected row is read there:
\* an item absent from that snapshot has none, whatever older snapshots hold.
C4_PrevRanksFromLatestEarlier ==
    pc \in {"fetch", "collect", "save", "viz"} =>
        /\ DOMAIN prev_ranks = {C4_Stored[i].app_id : i \in C4_Previous}
        /\ \A i \in C4_Previous :
              (\A j \in C4_Previous :
                  C4_Stored[j].app_id = C4_Stored[i].app_id => j <= i)
              => prev_ranks[C4_Stored[i].app_id] = C4_Stored[i].rank_position
        /\ \A k \in 1..Len(df) :
              IF \E i \in C4_Previous : C4_Stored[i].app_id = df[k].app_id
              THEN \E i \in C4_Previous :
                      /\ C4_Stored[i].app_id = df[k].app_id
                      /\ C4_Stored[i].rank_position = df[k].previous_rank
              ELSE df[k].previous_rank = None

\* C4 witness: an item recorded in an older snapshot but not in the most recent
\* one is collected without a previous rank, beside one that has it.
C4_Witness ==
    /\ pc = "save"
    /\ \E k \in 1..Len(df) :
          /\ df[k].previous_rank = None
          /\ \E i \in C4_Before : C4_Stored[i].app_id = df[k].app_id
    /\ \E k \in 1..Len(df) : df[k].previous_rank # None

\* The records of both files in read order, primary file before backup file.
C5_Read ==
    (IF Exists(primary) THEN ReadCsv(primary) ELSE <<>>)
    \o (IF Exists(backup) THEN ReadCsv(backup) ELSE <<>>)

C5_SameKey(r, q) == r.app_id = q.app_id /\ r.snapshot_time = q.snapshot_time

C6_ReadBack ==
    SelectSeq(load_merged_dataframe(primary, backup),
              LAMBDA r : r.snapshot_time = snapshot_time)

C7_Added == SubSeq(primary', Len(primary) + 1, Len(primary'))

\* C7: the store is append-only: every step leaves the old lines as a prefix
\* of the file; the file changes only when save_snapshot succeeds, by a
\* non-empty batch of rows that all carry the run's snapshot_time, which no
\* stored row carries yet; the header is written with the first batch only.
C7_AppendOnly ==
    [][/\ IsPrefix(primary, primary')
       /\ primary' # primary =>
             /\ pc = "save" /\ pc' = "viz" /\ saved'
             /\ LET rows == IF Exists(primary) THEN C7_Added ELSE Tail(C7_Added)
                IN /\ rows # <<>>
                   /\ \A i \in 1..Len(rows) :
                         /\ rows[i].kind = "row"
                         /\ rows[i].snapshot_time = snapshot_time
             /\ \A j \in 2..Len(primary) : primary[j].snapshot_time # snapshot_time
             /\ primary'[1] = HeaderLine
             /\ ~Exists(primary) => C7_Added[1] = HeaderLine]_vars

\* C7 witness: two batches with different timestamps under one header.
C7_Witness ==
    /\ Len(primary) >= 3
    /\ primary[1] = HeaderLine
    /\ primary[2].snapshot_time # primary[Len(primary)].snapshot_time
    /\ \A i \in 2..Len(primary) : primary[i].kind = "row"

\* C8: a run with nothing to persist leaves the store as it was: an empty fetch
\* ends the run before collection, and save_snapshot of an empty df writes
\* nothing and returns False, so the dashboard step is not reached.
C8_NothingToPersist ==
    [][/\ (pc = "fetch" /\ top_games' = <<>>) =>
             (pc' = "idle" /\ primary' = primary /\ ~saved')
       /\ (pc = "save" /\ df = <<>>) =>
             (pc' = "idle" /\ primary' = primary /\ ~saved')
       /\ pc' \in {"collect", "save", "viz"} => top_games' # <<>>]_vars

\* C8 witness: every entry of a fetched ranking was dropped, and the store
\* holds an earlier batch.
C8_Witness ==
    /\ pc = "save"
    /\ top_games # <<>>
    /\ df = <<>>
    /\ Len(primary) >= 2

\* Entry i of the ranking has an appid, and its lookup (details[i], the answer
\* the store gives for it) succeeded, is of type game and names no banned title.
C9_Qualifies(i) ==
    /\ top_games[i].appid # NoAppId
    /\ details[i] \notin {"raises", "unsuccessful"}
    /\ details[i] # "not_game"
    /\ details[i] # "banned"

\* C9: the collected rows are exactly the ranking entries with an appid whose
\* lookup succeeded, is of type game and is not banned, in the order of the
\* ranking; an entry that is skipped does not stop the later ones.
C9_CollectedAreQualifying ==
    pc = "save" =>
        LET q == SubSeqAt(top_games, {i \in 1..Len(top_games) : C9_Qualifies(i)}, 1)
        IN /\ Len(df) = Len(q)
           /\ \A i \in 1..Len(df) :
                 /\ df[i].app_id = q[i].appid
                 /\ df[i].rank_position = q[i].rank
                 /\ df[i].peak_in_game = q[i].peak_in_game

\* C9 witness: the first lookup raises and the second entry is still collected.
C9_Witness ==
    /\ pc = "save"
    /\ Len(top_games) = 2
    /\ top_games[1].appid # NoAppId
    /\ details[1] = "raises"
    /\ details[2] = "ok"
    /\ Len(df) = 1
    /\ df[1].rank_position = 2

\* C10 (as claimed): the biggest climb shown has a positive delta, the biggest
\* drop a negative one, neither is an item of status "new", and the count of
\* new entries is the number of "new" rows of the latest snapshot.
C10_SummaryIgnoresNew ==
    summary.shown =>
        /\ summary.biggest_gain[1].delta_rank > 0
        /\ summary.biggest_gain[1].rank_status # "new"
        /\ summary.biggest_loss[1].delta_rank < 0
        /\ summary.biggest_loss[1].rank_status # "new"
        /\ summary.new_count =
              Cardinality({i \in 1..Len(Snap(primary, backup)) :
                              Snap(primary, backup)[i].rank_status = "new"})

\* The store holds rows of the current run's snapshot_time.
C11_Appended ==
    \E i \in 2..Len(primary) : primary[i].snapshot_time = snapshot_time

\* C11: the steps of one run of main come in a fixed order: the previous ranks
\* are read while nothing is fetched or written yet, the ranking is fetched
\* next, the batch is appended only by the save that follows the collection,
\* and the dashboard step is entered only from a save_snapshot that returned
\* True in this run; a save that failed or wrote nothing ends the run.
C11_StepOrder ==
    [][/\ pc = "load" => (top_games = <<>> /\ df = <<>> /\ ~saved /\ ~C11_Appended)
       /\ prev_ranks' # prev_ranks =>
             \/ pc = "load" /\ pc' = "fetch"
             \/ pc' = "idle"
       /\ top_games' # top_games => (pc = "fetch" \/ pc' = "idle")
       /\ pc' = "collect" => pc = "fetch"
       /\ pc' = "save" => (pc = "collect" /\ primary' = primary)
       /\ primary' # primary => (pc = "save" /\ pc' = "viz")
       /\ pc' = "viz" => (pc = "save" /\ saved' /\ ~saved /\ primary' # primary)
       /\ (pc = "save" /\ primary' = primary) => (pc' = "idle" /\ ~saved')
       /\ pc = "viz" => (saved /\ C11_Appended)
       /\ summary'.shown => (summary.shown \/ (pc = "viz" /\ saved))]_vars

\* C11 witness: the dashboard step of a run that read previous ranks, fetched,
\* collected and appended its batch.
C11_Witness ==
    /\ pc = "viz"
    /\ saved
    /\ DOMAIN prev_ranks # {}
    /\ top_games # <<>>
    /\ df # <<>>
    /\ C11_Appended

====
